---- MODULE Spec2Model ----
(***************************************************************************)
(* Md2Anki: the Markdown document -> anki deck list parser                 *)
(* (src/src/md2anki/md_parser.py) together with the Markdown re-emitter    *)
(* (src/src/md2anki/anki_deck.py).                                         *)
(*                                                                         *)
(* A Markdown line is kept in tokenised form, i.e. as the groups the two   *)
(* heading regular expressions extract from it:                            *)
(*   kind   "blank" | "text" | "sep" | "heading"                           *)
(*   depth  number of '#' markers (0 when the line is no heading)          *)
(*   sub    the heading text starts with the prefix 'Subdeck: '            *)
(*   text   the heading text without that prefix / the text of the line    *)
(*   id     the number in the trailing '(id)', NoId when there is none     *)
(* A text buffer (description, question, answer) is a sequence of tokens:  *)
(* the newline token NL or the line that was appended.  A deck name is the *)
(* sequence of its '::'-separated segments (ANKI_SUBDECK_SEPARATOR).       *)
(***************************************************************************)
EXTENDS Integers, Sequences, FiniteSets, TLC

\* ------------------------------------------------------------------ bounds
MaxLines == 5
MaxHeadingDepth == 3
MaxInitialDepth == 2

\* ------------------------------------------------------- program constants
MD_ANKI_DECK_HEADING_SUBDECK_PREFIX == "Subdeck: "
MD_ANKI_NOTE_QUESTION_ANSWER_SEPARATOR == "---"

\* ------------------------------------------------------------------ inputs
NoId == 0
NoOrder == -1
None == <<"None">>

\* ids create_unique_id_int() / create_unique_id() may return
GenIds == {9001}

\* ids two calls of create_unique_id_int() / create_unique_id() on the same
\* line may return
MatcherGenIds == {9001, 9002}

\* heading texts with the explicit id written behind them (NoId: none)
HeadingChoices == {<<"Heading", 1234>>, <<"Heading 2", NoId>>}

TagLines == {"{=:global_tag:=}", "{=:subdeck_tag:=}"}
PlainLines == {"Answer"}

MkLine(kind, depth, sub, text, id) ==
  [kind |-> kind, depth |-> depth, sub |-> sub, text |-> text, id |-> id]

BlankLine == MkLine("blank", 0, FALSE, "", NoId)
SepLine == MkLine("sep", 0, FALSE, MD_ANKI_NOTE_QUESTION_ANSWER_SEPARATOR, NoId)
TextLine(t) == MkLine("text", 0, FALSE, t, NoId)
HeadingLine(depth, sub, text, id) == MkLine("heading", depth, sub, text, id)
NL == MkLine("nl", 0, FALSE, "\n", NoId)

HeadingLines ==
  { HeadingLine(d, s, h[1], h[2]) :
      d \in 1..MaxHeadingDepth, s \in BOOLEAN, h \in HeadingChoices }

Lines ==
  {BlankLine, SepLine} \cup { TextLine(t) : t \in TagLines \cup PlainLines }
    \cup HeadingLines

\* ------------------------------------------------------------ text buffers
IsWhitespace(tok) == tok.kind = "nl"

RECURSIVE lstrip(_)
lstrip(buf) ==
  IF buf = <<>> THEN <<>>
  ELSE IF IsWhitespace(Head(buf)) THEN lstrip(Tail(buf)) ELSE buf

RECURSIVE rstrip(_)
rstrip(buf) ==
  IF buf = <<>> THEN <<>>
  ELSE IF IsWhitespace(buf[Len(buf)])
       THEN rstrip(SubSeq(buf, 1, Len(buf) - 1))
       ELSE buf

\* mutant: only the front is stripped
strip_Front(buf) == lstrip(buf)

\* str.strip()
strip(buf) == lstrip(rstrip(buf))

\* mutant: a run of blank lines gives one newline
Newlines_AtMostOne(k) == [i \in 1..(IF k > 0 THEN 1 ELSE 0) |-> NL]

\* k * "\n"
Newlines(k) == [i \in 1..k |-> NL]

\* a line as the file iterator yields it: its text and the line terminator
RawLine(line) == <<line, NL>>

\* REGEX_MD_TAG applied to one line of text (the tag notation is written
\* without its enclosing backquotes)
TagsOfText(t) ==
  IF t = "{=:global_tag:=}" THEN {"global_tag"}
  ELSE IF t = "{=:subdeck_tag:=}" THEN {"subdeck_tag"}
  ELSE {}

md_get_used_tags(buf) ==
  UNION { TagsOfText(buf[i].text) : i \in 1..Len(buf) }

\* ----------------------------------------------------------- decks, notes
AnkiNote(question, guid) ==
  [question |-> question, answer |-> <<>>, tags |-> {}, guid |-> guid]

\* AnkiDeck.tags of a new deck: the tags a deck inherits, none at first
NoTags == {}

AnkiDeck(name, guid) ==
  [name |-> name, guid |-> guid, description |-> <<>>, notes |-> <<>>,
   tags |-> NoTags, md_document_order |-> NoOrder]

get_used_global_tags(deck) == md_get_used_tags(deck.description)

\* ------------------------------------------------------- heading matchers
\* REGEX_MD_ANKI_DECK_HEADING: one or more '#'
DeckHeadingMatches(line) == line.kind = "heading" /\ line.depth >= 1

\* REGEX_MD_ANKI_NOTE_QUESTION_HEADING: two or more '#'
NoteHeadingMatches_OneMarker(line) ==
  line.kind = "heading" /\ line.depth >= 1

NoteHeadingMatches(line) == line.kind = "heading" /\ line.depth >= 2

\* mutant: the id written behind the heading is not used
parse_possible_anki_deck_heading_FreshId(line, parent_deck_name, g) ==
  IF ~DeckHeadingMatches(line) THEN None
  ELSE [deck |-> AnkiDeck(IF parent_deck_name # None
                          THEN parent_deck_name \o <<line.text>>
                          ELSE <<line.text>>, g),
        depth |-> line.depth,
        is_subdeck |-> line.sub]

\* g: the value create_unique_id_int() returns when it is called
parse_possible_anki_deck_heading(line, parent_deck_name, g) ==
  IF ~DeckHeadingMatches(line) THEN None
  ELSE
    LET anki_deck_guid == IF line.id # NoId THEN line.id ELSE g
        anki_deck_name ==
          IF parent_deck_name # None
          THEN parent_deck_name \o <<line.text>>
          ELSE <<line.text>>
    IN  [deck |-> AnkiDeck(anki_deck_name, anki_deck_guid),
         depth |-> line.depth,
         is_subdeck |-> line.sub]

\* the heading text of a note heading, as it stands in the question
QuestionText(line) ==
  IF line.sub
  THEN TextLine(MD_ANKI_DECK_HEADING_SUBDECK_PREFIX \o line.text)
  ELSE TextLine(line.text)

\* mutant: the note heading test comes first
SubdeckDetected_NoteFirst(line) ==
  DeckHeadingMatches(line) /\ line.sub /\ ~NoteHeadingMatches(line)

\* md_parser.py 215: possible_anki_sub_deck is not None and its subdeck flag
SubdeckDetected(line) == DeckHeadingMatches(line) /\ line.sub

\* g: the value create_unique_id() returns when it is called
parse_possible_anki_note_heading(line, g) ==
  IF ~NoteHeadingMatches(line) THEN None
  ELSE [note |-> AnkiNote(<<QuestionText(line)>>,
                          IF line.id # NoId THEN line.id ELSE g),
        depth |-> line.depth]

\* ------------------------------------------------------------ list helpers
Last(seq) == seq[Len(seq)]
Front(seq) == SubSeq(seq, 1, Len(seq) - 1)
ReplaceLast(seq, x) == [seq EXCEPT ![Len(seq)] = x]
Reverse(seq) == [i \in 1..Len(seq) |-> seq[Len(seq) + 1 - i]]

\* mutant: the decks lose their notes when they are popped
Popped_WithoutNotes(stack, n) ==
  IF Len(stack) > n
  THEN [i \in 1..(Len(stack) - n) |->
          [stack[Len(stack) + 1 - i] EXCEPT !.notes = <<>>]]
  ELSE <<>>

\* the elements list.pop() removes until n elements are left, first popped first
Popped(stack, n) ==
  IF Len(stack) > n THEN Reverse(SubSeq(stack, n + 1, Len(stack))) ELSE <<>>

IsPrefixAt(seq, pat, i) ==
  /\ i + Len(pat) - 1 <= Len(seq)
  /\ \A k \in 1..Len(pat) : seq[i + k - 1] = pat[k]

\* mutant: the name keeps the parent it was built with
Replace1_Stale(name, old, new) == name

\* str.replace(old, new, 1) on names, which are kept as their list of
\* '::'-separated segments
Replace1(name, old, new) ==
  LET hits == { i \in 1..Len(name) : IsPrefixAt(name, old, i) }
  IN  IF hits = {} \/ old = <<>> THEN name
      ELSE LET i == CHOOSE j \in hits : \A k \in hits : j <= k
           IN  SubSeq(name, 1, i - 1) \o new
                 \o SubSeq(name, i + Len(old), Len(name))

\* ------------------------------------------------------------ parse states
LOOKING_FOR_ANKI_DECK_HEADING == "LOOKING_FOR_ANKI_DECK_HEADING"
INSIDE_ANKI_DECK == "INSIDE_ANKI_DECK"
LOOKING_FOR_ANKI_SUBDECK_DESCRIPTION == "LOOKING_FOR_ANKI_SUBDECK_DESCRIPTION"
ANKI_NOTE_QUESTION == "ANKI_NOTE_QUESTION"
ANKI_NOTE_ANSWER == "ANKI_NOTE_ANSWER"

BodyStates == {INSIDE_ANKI_DECK, ANKI_NOTE_QUESTION, ANKI_NOTE_ANSWER}

NoError == "none"
NoAnkiDeckFoundException == "NoAnkiDeckFoundException"
RootAnkiDeckWasSubdeckException == "RootAnkiDeckWasSubdeckException"
AnkiNoteUnexpectedDepth == "AnkiNoteUnexpectedDepth"
AnkiSubdeckUnexpectedDepth == "AnkiSubdeckUnexpectedDepth"
IndexError == "IndexError"

\* The local variables of parse_md_content_to_anki_deck_list as one record.
\*   raised   the exception that ended the call (NoError: none so far)
\*   opened   history: one entry per deck created, in creation order
\*   event    history: what the last line read was handled as
ParseStart(initial_heading_depth) ==
  [initial_heading_depth |-> initial_heading_depth,
   anki_deck_document_order_index_counter |-> 0,
   empty_lines |-> 0,
   parse_state |-> LOOKING_FOR_ANKI_DECK_HEADING,
   anki_decks |-> <<>>,
   anki_decks_stack |-> <<>>,
   raised |-> NoError,
   opened |-> <<>>,
   event |-> "start"]

Raise(s, exception) == [s EXCEPT !.raised = exception, !.event = "raise"]

Opened(deck, depth, how) ==
  [name |-> deck.name, guid |-> deck.guid, depth |-> depth, how |-> how]

\* mutant: a run of blank lines counts as one blank line
EmptyLine_Once(s) ==
  [s EXCEPT !.empty_lines = 1, !.event = "blank"]

\* md_parser.py 166-173
EmptyLine(s) ==
  [s EXCEPT !.empty_lines = @ + 1, !.event = "blank"]

\* mutant: the counter is not advanced
NextDocumentOrder_Stuck(counter) == counter

\* md_parser.py 195-198 / 267-268 / 312-313
NextDocumentOrder(counter) == counter + 1

\* mutant: the root deck heading is never tested for the subdeck prefix
RootIsSubdeck_Never(is_subdeck) == FALSE

\* md_parser.py 190: the subdeck test of the root deck heading
RootIsSubdeck(is_subdeck) == is_subdeck

\* mutant: the subdeck test comes before the depth test
LookForRootDeck_SubdeckFirst(s, line, g) ==
  LET possible_anki_deck == parse_possible_anki_deck_heading(line, None, g)
  IN  IF ~DeckHeadingMatches(line) THEN [s EXCEPT !.event = "ignore"]
      ELSE IF possible_anki_deck.is_subdeck
      THEN [s EXCEPT !.raised = RootAnkiDeckWasSubdeckException,
                     !.event = "raise"]
      ELSE IF possible_anki_deck.depth # s.initial_heading_depth
      THEN [s EXCEPT !.event = "ignore"]
      ELSE
        LET root_anki_deck ==
              [possible_anki_deck.deck EXCEPT !.md_document_order =
                 s.anki_deck_document_order_index_counter]
        IN  [s EXCEPT
               !.anki_deck_document_order_index_counter = @ + 1,
               !.anki_decks_stack = Append(@, root_anki_deck),
               !.parse_state = INSIDE_ANKI_DECK,
               !.opened = Append(@, Opened(root_anki_deck, line.depth, "root")),
               !.event = "root"]

\* md_parser.py 174-201
LookForRootDeck(s, line, g) ==
  LET possible_anki_deck == parse_possible_anki_deck_heading(line, None, g)
  IN  IF ~DeckHeadingMatches(line) THEN [s EXCEPT !.event = "ignore"]
      ELSE IF possible_anki_deck.depth # s.initial_heading_depth
      THEN [s EXCEPT !.event = "ignore"]
      ELSE IF RootIsSubdeck(possible_anki_deck.is_subdeck)
      THEN Raise(s, RootAnkiDeckWasSubdeckException)
      ELSE
        LET root_anki_deck ==
              [possible_anki_deck.deck EXCEPT !.md_document_order =
                 s.anki_deck_document_order_index_counter]
        IN  [s EXCEPT
               !.anki_deck_document_order_index_counter = NextDocumentOrder(@),
               !.anki_decks_stack = Append(@, root_anki_deck),
               !.parse_state = INSIDE_ANKI_DECK,
               !.opened = Append(@, Opened(root_anki_deck, line.depth, "root")),
               !.event = "root"]

\* mutant: the depth of a subdeck heading is not checked
SubdeckDepthExpected_Any(stack_len, heading_depth, initial_heading_depth) ==
  TRUE

\* mutant: the expected depth is taken one level too high
SubdeckDepthExpected_Shifted(stack_len, heading_depth, initial_heading_depth) ==
  heading_depth = stack_len - initial_heading_depth + 1

\* md_parser.py 255: the subdeck heading is at the expected depth
SubdeckDepthExpected(stack_len, heading_depth, initial_heading_depth) ==
  stack_len = heading_depth - initial_heading_depth

\* md_parser.py 215-275
SubdeckTransition(s, line, g) ==
  LET possible_anki_sub_deck ==
        parse_possible_anki_deck_heading(
          line, Last(s.anki_decks_stack).name, g)
      heading_depth == possible_anki_sub_deck.depth
      keep == heading_depth - s.initial_heading_depth
      old_anki_parentdeck_name == Last(s.anki_decks_stack).name
      deck_was_moved == Len(s.anki_decks_stack) > keep
      popped == Popped(s.anki_decks_stack, IF keep > 0 THEN keep ELSE 0)
      stack == IF deck_was_moved
               THEN SubSeq(s.anki_decks_stack, 1, IF keep > 0 THEN keep ELSE 0)
               ELSE s.anki_decks_stack
      decks == s.anki_decks \o popped
  IN  IF deck_was_moved /\ keep <= 0
      THEN \* the stack ran empty: pop() or [-1] of an empty list
           Raise([s EXCEPT !.anki_decks = decks, !.anki_decks_stack = <<>>],
                 IndexError)
      ELSE IF ~SubdeckDepthExpected(Len(stack), heading_depth,
                                    s.initial_heading_depth)
      THEN Raise(s, AnkiSubdeckUnexpectedDepth)
      ELSE
        LET name == IF deck_was_moved
                    THEN Replace1(possible_anki_sub_deck.deck.name,
                                  old_anki_parentdeck_name, Last(stack).name)
                    ELSE possible_anki_sub_deck.deck.name
            anki_subdeck ==
              [possible_anki_sub_deck.deck EXCEPT
                 !.name = name,
                 !.tags = @ \cup get_used_global_tags(Last(stack)),
                 !.md_document_order =
                    s.anki_deck_document_order_index_counter]
        IN  [s EXCEPT
               !.anki_decks = decks,
               !.anki_deck_document_order_index_counter = NextDocumentOrder(@),
               !.anki_decks_stack = Append(stack, anki_subdeck),
               !.parse_state = INSIDE_ANKI_DECK,
               !.opened =
                  Append(@, Opened(anki_subdeck, heading_depth, "subdeck")),
               !.event = "subdeck"]

\* mutant: the upper bound is taken relative to the initial heading depth
NoteDepthUnexpected_Relative(heading_depth, stack_len, initial_heading_depth) ==
  \/ heading_depth > stack_len + initial_heading_depth
  \/ heading_depth < initial_heading_depth + 1

\* md_parser.py 283-285: the note heading is not at a supported depth
NoteDepthUnexpected(heading_depth, stack_len, initial_heading_depth) ==
  \/ heading_depth > stack_len + 1
  \/ heading_depth < initial_heading_depth + 1

\* mutant: the copy keeps the notes of the original
CloneDeck_SameOrder(anki_subdeck, order) ==
  [anki_subdeck EXCEPT !.notes = <<>>]

CloneDeck_KeepNotes(anki_subdeck, order) ==
  [anki_subdeck EXCEPT !.md_document_order = order]

\* md_parser.py 310-312: copy.deepcopy of the deck, emptied and re-numbered
CloneDeck(anki_subdeck, order) ==
  [anki_subdeck EXCEPT !.notes = <<>>, !.md_document_order = order]

\* mutant: the note goes to the deck at the bottom of the stack
AppendNote_Overwrite(stack, anki_note) ==
  ReplaceLast(stack, [Last(stack) EXCEPT !.notes = <<anki_note>>])

AppendNote_ToRoot(stack, anki_note) ==
  [stack EXCEPT ![1] = [@ EXCEPT !.notes = Append(@, anki_note)]]

\* md_parser.py 321-322
AppendNote(stack, anki_note) ==
  ReplaceLast(stack, [Last(stack) EXCEPT !.notes = Append(@, anki_note)])

\* md_parser.py 276-328
NoteTransition(s, line, g) ==
  LET possible_anki_note == parse_possible_anki_note_heading(line, g)
      anki_note == possible_anki_note.note
      heading_depth == possible_anki_note.depth
      keep == heading_depth - s.initial_heading_depth
      parent_deck_removed == Len(s.anki_decks_stack) > keep
  IN  IF NoteDepthUnexpected(heading_depth, Len(s.anki_decks_stack),
                             s.initial_heading_depth)
      THEN Raise(s, AnkiNoteUnexpectedDepth)
      ELSE IF ~parent_deck_removed
      THEN [s EXCEPT !.anki_decks_stack = AppendNote(@, anki_note),
                     !.parse_state = ANKI_NOTE_QUESTION,
                     !.event = "note"]
      ELSE
        LET popped == Popped(s.anki_decks_stack, keep)
            rest == SubSeq(s.anki_decks_stack, 1, keep)
            anki_subdeck == Last(rest)
            anki_deck ==
              CloneDeck(anki_subdeck, s.anki_deck_document_order_index_counter)
        IN  [s EXCEPT
               !.anki_decks = (@ \o popped) \o <<anki_subdeck>>,
               !.anki_deck_document_order_index_counter = NextDocumentOrder(@),
               !.anki_decks_stack =
                  AppendNote(Append(Front(rest), anki_deck), anki_note),
               !.parse_state = ANKI_NOTE_QUESTION,
               !.opened = Append(@, Opened(anki_deck, heading_depth, "clone")),
               !.event = "note+clone"]

\* md_parser.py 329-333
DescriptionLine(s, line) ==
  LET anki_deck == Last(s.anki_decks_stack)
  IN  [s EXCEPT
         !.anki_decks_stack = ReplaceLast(@,
            [anki_deck EXCEPT !.description =
               (@ \o Newlines(s.empty_lines)) \o RawLine(line)]),
         !.empty_lines = 0,
         !.event = "description"]

ReplaceLastNote(stack, anki_note) ==
  ReplaceLast(stack,
    [Last(stack) EXCEPT !.notes = ReplaceLast(@, anki_note)])

\* mutant: the answer read so far is copied, not moved
SeparatorLine_KeepAnswer(s) ==
  LET anki_note == Last(Last(s.anki_decks_stack).notes)
  IN  [s EXCEPT
         !.anki_decks_stack = ReplaceLastNote(@,
            [anki_note EXCEPT
               !.question = (rstrip(anki_note.question) \o <<NL, NL>>)
                              \o lstrip(anki_note.answer)]),
         !.parse_state = ANKI_NOTE_ANSWER,
         !.event = "separator"]

\* md_parser.py 339-355
SeparatorLine(s) ==
  LET anki_note == Last(Last(s.anki_decks_stack).notes)
  IN  [s EXCEPT
         !.anki_decks_stack = ReplaceLastNote(@,
            [anki_note EXCEPT
               !.question = (rstrip(anki_note.question) \o <<NL, NL>>)
                              \o lstrip(anki_note.answer),
               !.answer = <<>>]),
         !.parse_state = ANKI_NOTE_ANSWER,
         !.event = "separator"]

\* mutant: the first line of text ends the question
AnswerLine_StartsAnswer(s, line) ==
  LET anki_note == Last(Last(s.anki_decks_stack).notes)
  IN  [s EXCEPT
         !.anki_decks_stack = ReplaceLastNote(@,
            [anki_note EXCEPT !.answer =
               (@ \o Newlines(s.empty_lines)) \o RawLine(line)]),
         !.empty_lines = 0,
         !.parse_state = ANKI_NOTE_ANSWER,
         !.event = "answer"]

\* mutant: a separator line is never kept as content
AnswerLine_DropSeparator(s, line) ==
  LET anki_note == Last(Last(s.anki_decks_stack).notes)
  IN  IF line.kind = "sep" THEN [s EXCEPT !.event = "answer"]
      ELSE [s EXCEPT
              !.anki_decks_stack = ReplaceLastNote(@,
                 [anki_note EXCEPT !.answer =
                    (@ \o Newlines(s.empty_lines)) \o RawLine(line)]),
              !.empty_lines = 0,
              !.event = "answer"]

\* md_parser.py 356-362
AnswerLine(s, line) ==
  LET anki_note == Last(Last(s.anki_decks_stack).notes)
  IN  [s EXCEPT
         !.anki_decks_stack = ReplaceLastNote(@,
            [anki_note EXCEPT !.answer =
               (@ \o Newlines(s.empty_lines)) \o RawLine(line)]),
         !.empty_lines = 0,
         !.event = "answer"]

\* md_parser.py 165-367: one iteration of the loop over the lines
ReadLine(s, line, g) ==
  IF line.kind = "blank" THEN EmptyLine(s)
  ELSE IF s.parse_state = LOOKING_FOR_ANKI_DECK_HEADING
  THEN LookForRootDeck(s, line, g)
  ELSE IF SubdeckDetected(line) THEN SubdeckTransition(s, line, g)
  ELSE IF NoteHeadingMatches(line) THEN NoteTransition(s, line, g)
  ELSE IF s.parse_state = INSIDE_ANKI_DECK THEN DescriptionLine(s, line)
  ELSE IF s.parse_state = ANKI_NOTE_QUESTION /\ line.kind = "sep"
  THEN SeparatorLine(s)
  ELSE AnswerLine(s, line)

\* md_parser.py 382-389
CleanUpNote(anki_note, parent_anki_deck) ==
  [anki_note EXCEPT
     !.tags = @ \cup get_used_global_tags(parent_anki_deck),
     !.question = strip(@),
     !.answer = strip(@)]

CleanUpDeck(parent_anki_deck) ==
  LET stripped == [parent_anki_deck EXCEPT !.description = strip(@)]
  IN  [stripped EXCEPT !.notes =
         [i \in 1..Len(@) |-> CleanUpNote(@[i], stripped)]]

\* mutant: the list is returned in the order the decks were emitted
SortByDocumentOrder_Unsorted(decks) == decks

\* md_parser.py 392: list.sort(key=md_document_order), a stable sort
RECURSIVE SortByDocumentOrder(_)
SortByDocumentOrder(decks) ==
  IF decks = <<>> THEN <<>>
  ELSE
    LET least == CHOOSE i \in 1..Len(decks) :
                   \A j \in 1..Len(decks) :
                     \/ decks[i].md_document_order < decks[j].md_document_order
                     \/ /\ decks[i].md_document_order =
                             decks[j].md_document_order
                        /\ i <= j
    IN  <<decks[least]>> \o
        SortByDocumentOrder(
          SubSeq(decks, 1, least - 1) \o SubSeq(decks, least + 1, Len(decks)))

\* mutant: the missing root deck goes unnoticed
NoDeckFound_Never(parse_state) == FALSE

\* md_parser.py 378
NoDeckFound(parse_state) == parse_state = LOOKING_FOR_ANKI_DECK_HEADING

\* mutant: the deck at the bottom of the stack is not appended
FlushStack_DropBottom(decks, stack) ==
  decks \o SubSeq(stack, 2, Len(stack))

\* md_parser.py 370-371: the decks still on the stack are appended, the
\* bottom one first
FlushStack(decks, stack) == decks \o stack

\* md_parser.py 369-400: the code after the loop
Finish(s) ==
  LET all == FlushStack(s.anki_decks, s.anki_decks_stack)
  IN  IF NoDeckFound(s.parse_state)
      THEN Raise([s EXCEPT !.anki_decks = all], NoAnkiDeckFoundException)
      ELSE [s EXCEPT
              !.anki_decks =
                 SortByDocumentOrder([i \in 1..Len(all) |-> CleanUpDeck(all[i])]),
              !.event = "return"]

RECURSIVE ReadLines(_, _, _)
ReadLines(s, lines, g) ==
  IF lines = <<>> \/ s.raised # NoError THEN s
  ELSE ReadLines(ReadLine(s, Head(lines), g), Tail(lines), g)

\* parse_md_content_to_anki_deck_list(md_file, initial_heading_depth) where
\* every id that has to be generated during the call is g
parse_md_content_to_anki_deck_list(lines, initial_heading_depth, g) ==
  LET s == ReadLines(ParseStart(initial_heading_depth), lines, g)
  IN  IF s.raised # NoError THEN s ELSE Finish(s)

\* ------------------------------------------------------ Markdown re-emitter
\* str.splitlines() of a text buffer, each line in tokenised form
RECURSIVE splitlines(_)
splitlines(buf) ==
  IF buf = <<>> THEN <<>>
  ELSE IF IsWhitespace(Head(buf)) THEN <<BlankLine>> \o splitlines(Tail(buf))
  ELSE IF Len(buf) >= 2 /\ IsWhitespace(buf[2])
  THEN <<Head(buf)>> \o splitlines(Tail(Tail(buf)))
  ELSE <<Head(buf)>> \o splitlines(Tail(buf))

\* ''.join(text.splitlines(keepends=True)[1:])
AfterFirstLine(buf) ==
  LET nls == { i \in 1..Len(buf) : IsWhitespace(buf[i]) }
  IN  IF nls = {} THEN <<>>
      ELSE LET i == CHOOSE j \in nls : \A k \in nls : j <= k
           IN  SubSeq(buf, i + 1, Len(buf))

\* anki_deck.py 36-51, MdSection: heading text, id written behind it, content
MdSection(heading, id, content) ==
  [heading |-> heading, id |-> id, content |-> content]

\* anki_deck.py 45-51, MdSection.create_string, as the lines it writes
create_string(section, depth) ==
  <<HeadingLine(depth, FALSE, section.heading, section.id)>> \o
  (IF section.content # <<>>
   THEN <<BlankLine>> \o splitlines(section.content)
   ELSE <<>>)

\* anki_deck.py 333-356, AnkiNote.create_md_section
create_md_section(anki_note) ==
  LET newline_count_question == Len(splitlines(anki_note.question))
      question_header == splitlines(anki_note.question)[1]
      question_body ==
        IF newline_count_question <= 1 THEN <<>>
        ELSE (<<NL>> \o AfterFirstLine(anki_note.question))
               \o <<NL, NL, SepLine>>
  IN  MdSection(question_header.text, anki_note.guid,
                strip((question_body \o <<NL, NL>>) \o anki_note.answer))

\* anki_deck.py 532-570: what the loop body writes for one deck
RECURSIVE WriteDecks(_, _, _)
WriteDecks(anki_decks, current_deck_heading_stack, initial_heading_depth) ==
  IF anki_decks = <<>> THEN <<>>
  ELSE
    LET anki_deck == Head(anki_decks)
        heading_names == anki_deck.name
        n == Len(heading_names)
        is_subdeck == n > 1
        \* headings[index]: the name segment, the last one with ' (guid)'
        NewHeading(index) ==
          MdSection(heading_names[index],
                    IF index = n THEN anki_deck.guid ELSE NoId, <<>>)
        Written(index) ==
          IF index <= Len(current_deck_heading_stack)
             /\ current_deck_heading_stack[index] = heading_names[index]
          THEN <<>>
          ELSE <<BlankLine>> \o
               create_string(NewHeading(index), initial_heading_depth + n - 1)
        RECURSIVE SubdeckHeadings(_)
        SubdeckHeadings(index) ==
          IF index > n THEN <<>>
          ELSE Written(index) \o SubdeckHeadings(index + 1)
        deck_lines ==
          IF is_subdeck THEN SubdeckHeadings(1)
          ELSE (IF Len(current_deck_heading_stack) > 0
                THEN <<BlankLine>> ELSE <<>>) \o
               create_string(
                 MdSection(heading_names[1], anki_deck.guid,
                           anki_deck.description),
                 initial_heading_depth)
        RECURSIVE NoteLines(_)
        NoteLines(i) ==
          IF i > Len(anki_deck.notes) THEN <<>>
          ELSE (<<BlankLine>> \o
                create_string(create_md_section(anki_deck.notes[i]),
                              initial_heading_depth + n))
               \o NoteLines(i + 1)
    IN  (deck_lines \o NoteLines(1)) \o
        WriteDecks(Tail(anki_decks), heading_names, initial_heading_depth)

\* anki_deck.py 523-575: the lines of the file written
md_merge_anki_decks_to_file(anki_decks, initial_heading_depth) ==
  WriteDecks(anki_decks, <<>>, initial_heading_depth)

\* =================================================================== state
VARIABLES
  initial_heading_depth,                   \* argument of the call
  anki_deck_document_order_index_counter,
  empty_lines,
  parse_state,
  anki_decks,
  anki_decks_stack,
  raised,          \* the exception the call ended in, NoError if none
  opened,          \* history: the decks created so far, in creation order
  event,           \* history: what the last step did
  last_line,       \* history: the line the last step read
  before,          \* history: the local variables before the last step
  lines_read,      \* number of lines read from md_file so far
  root_depth_headings, \* history: number of heading lines read so far that
                   \* have exactly initial_heading_depth markers
  note_read,       \* history: one entry per accepted note heading line: the
                   \* line, the document order of the deck on top of the
                   \* stack before and after the line was handled, and the
                   \* position the note got in the latter deck
  blank_run,       \* history of the input: blanks: number of blank lines
                   \* read since the last non-blank line; prev: what the
                   \* last non-blank line was handled as; prev_blanks: the
                   \* number of blank lines directly in front of that line;
                   \* prev2: what the non-blank line before it was
                   \* handled as; counted: number of blank lines read
                   \* since a line was last appended to a description or
                   \* an answer; prev_counted: that number when the last
                   \* non-blank line was read
  pc,              \* "scan": in the loop, "raised": a line raised,
                   \* "done": the input was exhausted (the code after the
                   \* loop returned or raised),
                   \* "merged": the result was written back to Markdown,
                   \* "reparsed": the written Markdown was parsed again
  md_output,       \* the lines md_merge_anki_decks_to_file wrote
  reparsed,        \* the outcome of parsing md_output
  call             \* a function called on its own: its name, its arguments
                   \* and what its calls returned (NoCall: none)

vars ==
  <<initial_heading_depth, anki_deck_document_order_index_counter,
    empty_lines, parse_state, anki_decks, anki_decks_stack, raised, opened,
    event, last_line, before, lines_read, root_depth_headings, note_read,
    blank_run, pc, md_output, reparsed, call>>

NoCall == [op |-> "none"]

NoBlankRun ==
  [blanks |-> 0, prev |-> "start", prev_blanks |-> 0, prev2 |-> "start",
   counted |-> 0, prev_counted |-> 0]

\* the local variables of the parser at the start of a call
ParserAtStart ==
  /\ anki_deck_document_order_index_counter = 0
  /\ empty_lines = 0
  /\ parse_state = LOOKING_FOR_ANKI_DECK_HEADING
  /\ anki_decks = <<>>
  /\ anki_decks_stack = <<>>
  /\ raised = NoError
  /\ opened = <<>>
  /\ event = "start"
  /\ last_line = BlankLine
  /\ before = ParseStart(initial_heading_depth)
  /\ lines_read = 0
  /\ root_depth_headings = 0
  /\ note_read = <<>>
  /\ blank_run = NoBlankRun
  /\ pc = "scan"
  /\ md_output = <<>>
  /\ reparsed = ParseStart(initial_heading_depth)

ParserVars ==
  <<initial_heading_depth, anki_deck_document_order_index_counter,
    empty_lines, parse_state, anki_decks, anki_decks_stack, raised, opened,
    event, last_line, before, lines_read, root_depth_headings, note_read,
    blank_run, pc, md_output, reparsed>>

Locals ==
  [initial_heading_depth |-> initial_heading_depth,
   anki_deck_document_order_index_counter |->
     anki_deck_document_order_index_counter,
   empty_lines |-> empty_lines,
   parse_state |-> parse_state,
   anki_decks |-> anki_decks,
   anki_decks_stack |-> anki_decks_stack,
   raised |-> raised,
   opened |-> opened,
   event |-> event]

Store(s) ==
  /\ initial_heading_depth' = s.initial_heading_depth
  /\ anki_deck_document_order_index_counter' =
       s.anki_deck_document_order_index_counter
  /\ empty_lines' = s.empty_lines
  /\ parse_state' = s.parse_state
  /\ anki_decks' = s.anki_decks
  /\ anki_decks_stack' = s.anki_decks_stack
  /\ raised' = s.raised
  /\ opened' = s.opened
  /\ event' = s.event

Init ==
  /\ initial_heading_depth \in 1..MaxInitialDepth
  /\ ParserAtStart
  /\ call = NoCall

\* one iteration of the loop of md_parser.py 158-367: the line is read and
\* the branch of the loop body it selects leaves the local variables s
Step_SameLine(line, g, s) ==
  /\ Store(s)
  /\ last_line' = line
  /\ before' = Locals
  /\ lines_read' = lines_read
  /\ root_depth_headings' =
       IF line.kind = "heading" /\ line.depth = initial_heading_depth
       THEN root_depth_headings + 1 ELSE root_depth_headings
  /\ note_read' =
       IF s.event \in {"note", "note+clone"}
       THEN Append(note_read,
              [line |-> line,
               top_before |-> Last(anki_decks_stack).md_document_order,
               top_after |-> Last(s.anki_decks_stack).md_document_order,
               index |-> Len(Last(s.anki_decks_stack).notes)])
       ELSE note_read
  /\ blank_run' =
       IF line.kind = "blank"
       THEN [blank_run EXCEPT !.blanks = @ + 1, !.counted = @ + 1]
       ELSE [blanks |-> 0, prev |-> s.event,
             prev_blanks |-> blank_run.blanks, prev2 |-> blank_run.prev,
             counted |-> IF s.event \in {"description", "answer"}
                         THEN 0 ELSE blank_run.counted,
             prev_counted |-> blank_run.counted]
  /\ pc' = IF s.raised # NoError THEN "raised" ELSE "scan"
  /\ UNCHANGED <<md_output, reparsed, call>>

Step(line, g, s) ==
  /\ Store(s)
  /\ last_line' = line
  /\ before' = Locals
  /\ lines_read' = lines_read + 1
  /\ root_depth_headings' =
       IF line.kind = "heading" /\ line.depth = initial_heading_depth
       THEN root_depth_headings + 1 ELSE root_depth_headings
  /\ note_read' =
       IF s.event \in {"note", "note+clone"}
       THEN Append(note_read,
              [line |-> line,
               top_before |-> Last(anki_decks_stack).md_document_order,
               top_after |-> Last(s.anki_decks_stack).md_document_order,
               index |-> Len(Last(s.anki_decks_stack).notes)])
       ELSE note_read
  /\ blank_run' =
       IF line.kind = "blank"
       THEN [blank_run EXCEPT !.blanks = @ + 1, !.counted = @ + 1]
       ELSE [blanks |-> 0, prev |-> s.event,
             prev_blanks |-> blank_run.blanks, prev2 |-> blank_run.prev,
             counted |-> IF s.event \in {"description", "answer"}
                         THEN 0 ELSE blank_run.counted,
             prev_counted |-> blank_run.counted]
  /\ pc' = IF s.raised # NoError THEN "raised" ELSE "scan"
  /\ UNCHANGED <<md_output, reparsed, call>>

CanRead == pc = "scan" /\ lines_read < MaxLines

\* md_parser.py 166-173
OnEmptyLine ==
  /\ CanRead
  /\ \E line \in Lines :
       /\ line.kind = "blank"
       /\ Step(line, NoId, EmptyLine(Locals))

\* md_parser.py 174-201
OnLookingForRootDeck ==
  /\ CanRead
  /\ parse_state = LOOKING_FOR_ANKI_DECK_HEADING
  /\ \E line \in Lines, g \in GenIds :
       /\ line.kind # "blank"
       /\ Step(line, g, LookForRootDeck(Locals, line, g))

\* md_parser.py 215-275
OnSubdeckHeading ==
  /\ CanRead
  /\ parse_state \in BodyStates
  /\ \E line \in Lines, g \in GenIds :
       /\ SubdeckDetected(line)
       /\ Step(line, g, SubdeckTransition(Locals, line, g))

\* md_parser.py 276-328
OnNoteHeading ==
  /\ CanRead
  /\ parse_state \in BodyStates
  /\ \E line \in Lines, g \in GenIds :
       /\ ~SubdeckDetected(line)
       /\ NoteHeadingMatches(line)
       /\ Step(line, g, NoteTransition(Locals, line, g))

IsOtherLine(line) ==
  /\ line.kind # "blank"
  /\ ~SubdeckDetected(line)
  /\ ~NoteHeadingMatches(line)

\* md_parser.py 329-338
OnDescriptionLine ==
  /\ CanRead
  /\ parse_state = INSIDE_ANKI_DECK
  /\ \E line \in Lines :
       /\ IsOtherLine(line)
       /\ Step(line, NoId, DescriptionLine(Locals, line))

\* md_parser.py 339-355
OnSeparatorLine ==
  /\ CanRead
  /\ parse_state = ANKI_NOTE_QUESTION
  /\ \E line \in Lines :
       /\ IsOtherLine(line)
       /\ line.kind = "sep"
       /\ Step(line, NoId, SeparatorLine(Locals))

\* md_parser.py 356-367
OnAnswerLine ==
  /\ CanRead
  /\ parse_state \in {ANKI_NOTE_QUESTION, ANKI_NOTE_ANSWER}
  /\ \E line \in Lines :
       /\ IsOtherLine(line)
       /\ ~(parse_state = ANKI_NOTE_QUESTION /\ line.kind = "sep")
       /\ Step(line, NoId, AnswerLine(Locals, line))

\* md_parser.py 369-400: the input is exhausted
OnEndOfInput ==
  /\ pc = "scan"
  /\ Store(Finish(Locals))
  /\ before' = Locals
  /\ pc' = "done"
  /\ UNCHANGED <<last_line, lines_read, root_depth_headings, note_read,
                 blank_run, md_output, reparsed, call>>

Returned == pc \in {"done", "merged", "reparsed"} /\ raised = NoError

\* the last step read last_line in the state `before`
LineWasRead == lines_read > 0 /\ pc \in {"scan", "raised"}

\* anki_deck.py 523-575 on the returned deck list
OnMdMerge ==
  /\ pc = "done"
  /\ raised = NoError
  /\ md_output' = md_merge_anki_decks_to_file(anki_decks, initial_heading_depth)
  /\ pc' = "merged"
  /\ UNCHANGED <<initial_heading_depth, anki_deck_document_order_index_counter,
                 empty_lines, parse_state, anki_decks, anki_decks_stack,
                 raised, opened, event, last_line, before, lines_read,
                 root_depth_headings, note_read, blank_run, reparsed, call>>

\* md_parser.py 131-400 on the file just written
OnReparse ==
  /\ pc = "merged"
  /\ \E g \in GenIds :
       reparsed' = parse_md_content_to_anki_deck_list(
                     md_output, initial_heading_depth, g)
  /\ pc' = "reparsed"
  /\ UNCHANGED <<initial_heading_depth, anki_deck_document_order_index_counter,
                 empty_lines, parse_state, anki_decks, anki_decks_stack,
                 raised, opened, event, last_line, before, lines_read,
                 root_depth_headings, note_read, blank_run, md_output, call>>

Next ==
  \/ OnEmptyLine
  \/ OnLookingForRootDeck
  \/ OnSubdeckHeading
  \/ OnNoteHeading
  \/ OnDescriptionLine
  \/ OnSeparatorLine
  \/ OnAnswerLine
  \/ OnEndOfInput

Spec == Init /\ [][Next]_vars

NextRoundTrip ==
  \/ Next
  \/ OnMdMerge
  \/ OnReparse

SpecRoundTrip == Init /\ [][NextRoundTrip]_vars

\* ------------------------------------------- the heading matchers on their own
\* names of the deck on top of the stack (None: no parent deck name is given)
ParentDeckNames == {None, <<"Heading">>, <<"Heading", "Heading 2">>}

InitMatchers ==
  /\ initial_heading_depth = 1
  /\ ParserAtStart
  /\ call = NoCall

\* md_parser.py 73-113, called on a line
OnParsePossibleAnkiDeckHeading ==
  /\ call = NoCall
  /\ \E line \in Lines, parent_deck_name \in ParentDeckNames,
        g \in MatcherGenIds :
       call' = [op |-> "parse_possible_anki_deck_heading",
                line |-> line,
                parent_deck_name |-> parent_deck_name,
                calls |-> 1,
                first |-> parse_possible_anki_deck_heading(
                            line, parent_deck_name, g),
                second |-> None]
  /\ UNCHANGED ParserVars

\* md_parser.py 73-113, called once more with the same arguments
OnParsePossibleAnkiDeckHeadingAgain ==
  /\ call.op = "parse_possible_anki_deck_heading"
  /\ call.calls = 1
  /\ \E g \in MatcherGenIds :
       call' = [call EXCEPT
                  !.calls = 2,
                  !.second = parse_possible_anki_deck_heading(
                               call.line, call.parent_deck_name, g)]
  /\ UNCHANGED ParserVars

\* md_parser.py 116-128, called on a line
OnParsePossibleAnkiNoteHeading ==
  /\ call = NoCall
  /\ \E line \in Lines, g \in MatcherGenIds :
       call' = [op |-> "parse_possible_anki_note_heading",
                line |-> line,
                parent_deck_name |-> None,
                calls |-> 1,
                first |-> parse_possible_anki_note_heading(line, g),
                second |-> None]
  /\ UNCHANGED ParserVars

\* md_parser.py 116-128, called once more on the same line
OnParsePossibleAnkiNoteHeadingAgain ==
  /\ call.op = "parse_possible_anki_note_heading"
  /\ call.calls = 1
  /\ \E g \in MatcherGenIds :
       call' = [call EXCEPT
                  !.calls = 2,
                  !.second = parse_possible_anki_note_heading(call.line, g)]
  /\ UNCHANGED ParserVars

NextMatchers ==
  \/ OnParsePossibleAnkiDeckHeading
  \/ OnParsePossibleAnkiDeckHeadingAgain
  \/ OnParsePossibleAnkiNoteHeading
  \/ OnParsePossibleAnkiNoteHeadingAgain

SpecMatchers == InitMatchers /\ [][NextMatchers]_vars

\* ================================================================== claims
AllDecks == anki_decks \o anki_decks_stack

\* C1: the returned deck list is in ascending md_document_order, and this
\* is the order in which the decks were opened while reading the source
\* (root heading, accepted subdeck headings, fragments re-opened by a note).
C1_DocumentOrder ==
  Returned =>
    /\ Len(anki_decks) = Len(opened)
    /\ \A i, j \in 1..Len(anki_decks) :
         i < j => anki_decks[i].md_document_order
                    < anki_decks[j].md_document_order
    /\ \A i \in 1..Len(anki_decks) :
         /\ i <= Len(opened)
         /\ anki_decks[i].name = opened[i].name
         /\ anki_decks[i].guid = opened[i].guid

\* a subdeck was closed before the deck below it: emission order and
\* document order differ
C1_Witness ==
  /\ Returned
  /\ Len(opened) = 3
  /\ opened[2].how = "subdeck"
  /\ opened[3].how = "clone"
  /\ opened[3].name = opened[1].name

\* C2: a returned deck that was opened by a subdeck heading line has
\* initial_heading_depth + (number of name segments - 1) heading markers.
C2_DepthConsistency ==
  Returned =>
    \A i \in 1..Len(opened) :
      opened[i].how = "subdeck" =>
        /\ i <= Len(anki_decks)
        /\ opened[i].depth =
             initial_heading_depth + (Len(anki_decks[i].name) - 1)

C2_Witness ==
  /\ Returned
  /\ \E i \in 1..Len(opened) :
       /\ opened[i].how = "subdeck"
       /\ Len(opened[i].name) = 3
  /\ \E i \in 1..Len(opened) :
       /\ opened[i].how = "subdeck"
       /\ Len(opened[i].name) = 2
       /\ i > 2

\* C6: during the scan the md_document_order values of all decks on the
\* stack and in the emitted list are pairwise distinct, a deck created later
\* has a larger value than every deck created earlier, and the counter is
\* the number of decks created so far.
C6_UniqueIncreasingOrder ==
  pc = "scan" =>
    /\ anki_deck_document_order_index_counter = Len(opened)
    /\ Len(AllDecks) = Len(opened)
    /\ \A i, j \in 1..Len(AllDecks) :
         i # j => AllDecks[i].md_document_order
                    # AllDecks[j].md_document_order
    /\ \A i \in 1..Len(AllDecks) :
         LET order == AllDecks[i].md_document_order
         IN  /\ order \in 0..(Len(opened) - 1)
             /\ opened[order + 1].name = AllDecks[i].name
             /\ opened[order + 1].guid = AllDecks[i].guid

C6_Witness ==
  /\ pc = "scan"
  /\ anki_deck_document_order_index_counter = 3
  /\ Len(anki_decks) = 2
  /\ Len(anki_decks_stack) = 1

RECURSIVE NoteCount(_)
NoteCount(decks) ==
  IF decks = <<>> THEN 0 ELSE Len(Head(decks).notes) + NoteCount(Tail(decks))

IsNoteHeadingLine(line) ==
  line.kind = "heading" /\ ~line.sub /\ line.depth >= 2

\* the document of tests_md_parser.py 253-257
SplitRootDocument ==
  << HeadingLine(1, FALSE, "Heading", 1234), BlankLine,
     HeadingLine(2, FALSE, "Question 1", 101), BlankLine,
     TextLine("Answer 1"), BlankLine,
     HeadingLine(2, TRUE, "Heading 2", 12345), BlankLine,
     HeadingLine(3, FALSE, "Question 2", 102), BlankLine,
     TextLine("Answer 2"), BlankLine,
     HeadingLine(2, FALSE, "Question 3", 103), BlankLine,
     TextLine("Answer 3") >>

SplitRootResult ==
  LET r == parse_md_content_to_anki_deck_list(SplitRootDocument, 1, 9001)
      d == r.anki_decks
  IN  /\ r.raised = NoError
      /\ Len(d) = 3
      /\ d[1].name = <<"Heading">> /\ d[1].guid = 1234
      /\ d[2].name = <<"Heading", "Heading 2">> /\ d[2].guid = 12345
      /\ d[3].name = <<"Heading">> /\ d[3].guid = 1234
      /\ \A i \in 1..3 : Len(d[i].notes) = 1
      /\ d[1].notes[1].guid = 101 /\ d[1].notes[1].answer = <<TextLine("Answer 1")>>
      /\ d[2].notes[1].guid = 102 /\ d[2].notes[1].answer = <<TextLine("Answer 2")>>
      /\ d[3].notes[1].guid = 103 /\ d[3].notes[1].answer = <<TextLine("Answer 3")>>

\* C7: a note heading of depth h read while the stack holds more than
\* h - initial_heading_depth decks emits all decks above that level and the
\* deck at that level, and replaces the latter on the stack by a copy with
\* the same name, id and tags, a fresh (largest) document order and the new
\* note as its only note; root + note, subdeck + note, note at root depth
\* gives three decks: root, subdeck, second root fragment, one note each.
C7_NoteReopensDeck ==
  /\ lines_read = 0 => SplitRootResult
  /\ ( /\ LineWasRead
       /\ raised = NoError
       /\ before.parse_state \in BodyStates
       /\ IsNoteHeadingLine(last_line)
       /\ Len(before.anki_decks_stack)
            > last_line.depth - initial_heading_depth )
     =>
       LET b == before.anki_decks_stack
           k == last_line.depth - initial_heading_depth
           original == b[k]
           copy == Last(anki_decks_stack)
       IN  /\ anki_decks =
                (before.anki_decks \o Reverse(SubSeq(b, k + 1, Len(b))))
                  \o <<original>>
           /\ Len(anki_decks_stack) = k
           /\ Front(anki_decks_stack) = SubSeq(b, 1, k - 1)
           /\ copy.name = original.name
           /\ copy.guid = original.guid
           /\ copy.tags = original.tags
           /\ Len(copy.notes) = 1
           /\ copy.notes[1].question = <<TextLine(last_line.text)>>
           /\ copy.md_document_order =
                before.anki_deck_document_order_index_counter
           /\ \A i \in 1..Len(AllDecks) :
                i < Len(AllDecks) =>
                  AllDecks[i].md_document_order < copy.md_document_order

\* the note re-opened the root deck after a subdeck that has a note
C7_Witness ==
  /\ LineWasRead
  /\ raised = NoError
  /\ before.parse_state \in BodyStates
  /\ IsNoteHeadingLine(last_line)
  /\ Len(before.anki_decks_stack) = 2
  /\ last_line.depth - initial_heading_depth = 1
  /\ Len(before.anki_decks_stack[1].notes) = 1
  /\ Len(before.anki_decks_stack[2].notes) = 1

\* C8: when no line read is a deck heading with exactly
\* initial_heading_depth markers, no line raises, the parser stays in
\* LOOKING_FOR_ANKI_DECK_HEADING, and at the end of the input the call
\* raises NoAnkiDeckFoundException instead of returning a list.
C8_NoDeckFound ==
  root_depth_headings = 0 =>
    /\ pc # "raised"
    /\ pc = "scan" =>
         raised = NoError /\ parse_state = LOOKING_FOR_ANKI_DECK_HEADING
    /\ pc # "scan" =>
         /\ pc = "done"
         /\ raised = NoAnkiDeckFoundException
         /\ anki_decks = <<>>

\* a heading of another depth was the last line of the input
C8_Witness ==
  /\ pc = "done"
  /\ raised = NoAnkiDeckFoundException
  /\ root_depth_headings = 0
  /\ last_line.kind = "heading"
  /\ lines_read >= 1

\* C9: while the root deck is looked for, a heading line with exactly
\* initial_heading_depth markers and the subdeck prefix raises
\* RootAnkiDeckWasSubdeckException; no deck was opened, nothing is returned.
C9_RootWasSubdeck ==
  /\ ( /\ LineWasRead
       /\ before.parse_state = LOOKING_FOR_ANKI_DECK_HEADING
       /\ last_line.kind = "heading"
       /\ last_line.depth = initial_heading_depth
       /\ last_line.sub )
     =>
       /\ pc = "raised"
       /\ raised = RootAnkiDeckWasSubdeckException
       /\ opened = <<>>
       /\ AllDecks = <<>>
       /\ anki_deck_document_order_index_counter = 0
  /\ raised = RootAnkiDeckWasSubdeckException => ~Returned

C9_Witness ==
  /\ pc = "raised"
  /\ raised = RootAnkiDeckWasSubdeckException
  /\ lines_read >= 2
  /\ last_line.sub

DeckTagSet(anki_deck) == anki_deck.tags \cup get_used_global_tags(anki_deck)

IsProperPrefix(a, b) == Len(a) < Len(b) /\ SubSeq(b, 1, Len(a)) = a

\* The decks of the returned list that were on the stack below deck i when
\* it was opened: for each proper prefix of its name the deck of that name
\* opened last before it (the list is in the order of opening).
Ancestors(i) ==
  { j \in 1..(i - 1) :
      /\ IsProperPrefix(anki_decks[j].name, anki_decks[i].name)
      /\ \A k \in (j + 1)..(i - 1) : anki_decks[k].name # anki_decks[j].name }

\* C3: after a successful parse every note's tag set includes the tag set
\* of its deck, which includes the tag set of every deck on the ancestor
\* path up to the root deck.
C3_TagMonotonicity ==
  Returned =>
    \A i \in 1..Len(anki_decks) :
      /\ \A n \in 1..Len(anki_decks[i].notes) :
           DeckTagSet(anki_decks[i]) \subseteq anki_decks[i].notes[n].tags
      /\ \A j \in Ancestors(i) :
           DeckTagSet(anki_decks[j]) \subseteq DeckTagSet(anki_decks[i])

\* the tags declared by deck i and by the decks on its ancestor path
AncestorPathTags(i) ==
  UNION { get_used_global_tags(anki_decks[j]) : j \in Ancestors(i) \cup {i} }

\* C4: after a successful parse every note's tag set is exactly the union
\* of its own declared tags (a note heading declares none) and the tags
\* declared by the decks on its ancestor path (owner, parent, ..., root).
C4_ExactTags ==
  Returned =>
    \A i \in 1..Len(anki_decks) :
      \A n \in 1..Len(anki_decks[i].notes) :
        anki_decks[i].notes[n].tags = AncestorPathTags(i)

SameNote(a, b) ==
  /\ a.guid = b.guid
  /\ a.tags = b.tags
  /\ a.question = b.question
  /\ a.answer = b.answer

SameDeck(a, b) ==
  /\ a.name = b.name
  /\ a.guid = b.guid
  /\ DeckTagSet(a) = DeckTagSet(b)
  /\ Len(a.notes) = Len(b.notes)
  /\ \A n \in 1..Len(a.notes) :
       n <= Len(b.notes) /\ SameNote(a.notes[n], b.notes[n])

SameDeckList(a, b) ==
  /\ Len(a) = Len(b)
  /\ \A i \in 1..Len(a) : i <= Len(b) /\ SameDeck(a[i], b[i])

\* C5: writing the returned deck list back to Markdown with the ids kept
\* and parsing the output again gives a deck list equal to the first one in
\* length and, deck by deck and note by note, in name, id, tag set,
\* question and answer.
C5_RoundTrip ==
  pc = "reparsed" =>
    /\ reparsed.raised = NoError
    /\ SameDeckList(reparsed.anki_decks, anki_decks)

IsSubdeckHeadingLine(line) == line.kind = "heading" /\ line.sub

\* a subdeck heading line was read in a body state
SubdeckHeadingWasRead ==
  /\ LineWasRead
  /\ before.parse_state \in BodyStates
  /\ IsSubdeckHeadingLine(last_line)

\* len(anki_decks_stack) when the loop of md_parser.py 233-243 is left, for
\* a stack of n decks and a heading of depth h
LenAfterPops(n, h) ==
  LET keep == h - initial_heading_depth
  IN  IF n > keep THEN (IF keep > 0 THEN keep ELSE 0) ELSE n

\* C11 as stated: the subdeck heading of depth h is accepted only if
\* h = len(stack) - initial_heading_depth + 1 with len(stack) measured after
\* the pops, and otherwise AnkiSubdeckUnexpectedDepth is raised.
C11_AsStated ==
  SubdeckHeadingWasRead =>
    LET h == last_line.depth
        after == LenAfterPops(Len(before.anki_decks_stack), h)
    IN  /\ raised = NoError => h = after - initial_heading_depth + 1
        /\ h # after - initial_heading_depth + 1 =>
             raised = AnkiSubdeckUnexpectedDepth

\* C11 (amended): in a body state a subdeck heading of depth h pops and
\* emits decks while len(stack) > h - initial_heading_depth; it is then
\* accepted iff h = len(stack) + initial_heading_depth (length after the
\* pops): the new deck is pushed on the remaining stack under the name of
\* its new parent.  A deeper heading raises AnkiSubdeckUnexpectedDepth and
\* changes nothing; a heading with h <= initial_heading_depth empties the
\* stack and ends in an IndexError.
C11_SubdeckDepth ==
  SubdeckHeadingWasRead =>
    LET h == last_line.depth
        b == before.anki_decks_stack
        n == Len(b)
        keep == h - initial_heading_depth
        after == LenAfterPops(n, h)
    IN  IF keep <= 0
        THEN raised = IndexError /\ pc = "raised"
        ELSE IF h = after + initial_heading_depth
        THEN /\ raised = NoError
             /\ parse_state = INSIDE_ANKI_DECK
             /\ anki_decks =
                  before.anki_decks \o Reverse(SubSeq(b, keep + 1, n))
             /\ Len(anki_decks_stack) = keep + 1
             /\ Front(anki_decks_stack) = SubSeq(b, 1, keep)
             /\ Last(anki_decks_stack).name =
                  Append(b[keep].name, last_line.text)
             /\ Last(anki_decks_stack).notes = <<>>
        ELSE /\ raised = AnkiSubdeckUnexpectedDepth
             /\ pc = "raised"
             /\ n < keep
             /\ anki_decks = before.anki_decks
             /\ anki_decks_stack = b

\* '# Heading' followed by '### Subdeck: Heading 2'
C11_Witness ==
  /\ SubdeckHeadingWasRead
  /\ raised = AnkiSubdeckUnexpectedDepth
  /\ initial_heading_depth = 1
  /\ Len(before.anki_decks_stack) = 1
  /\ last_line.depth = 3
  /\ last_line.text = "Heading 2"

\* a subdeck heading that closed two decks was accepted
C11_WitnessPops ==
  /\ SubdeckHeadingWasRead
  /\ raised = NoError
  /\ Len(before.anki_decks_stack) = 3
  /\ Len(anki_decks_stack) = 2

\* C12: whatever lines are read and whatever the initial heading depth is,
\* the call returns a deck list or raises one of the four exceptions of
\* md_parser.py 31-52; no other failure (an empty deck stack whose top is
\* read or popped) is reachable.
C12_OnlyFourExceptions ==
  /\ raised \in {NoError, NoAnkiDeckFoundException,
                 RootAnkiDeckWasSubdeckException, AnkiNoteUnexpectedDepth,
                 AnkiSubdeckUnexpectedDepth}
  /\ (pc = "scan" /\ parse_state \in BodyStates) => anki_decks_stack # <<>>

\* C13: for every initial heading depth d, a root deck heading with d
\* markers immediately followed by a note heading with d + 1 markers is
\* read without error and leaves one deck that contains exactly that note.
C13_NoteBelowRoot ==
  ( /\ LineWasRead
    /\ before.event = "root"
    /\ IsNoteHeadingLine(last_line)
    /\ last_line.depth = initial_heading_depth + 1 )
  =>
    /\ raised = NoError
    /\ anki_decks = <<>>
    /\ Len(anki_decks_stack) = 1
    /\ Len(anki_decks_stack[1].notes) = 1
    /\ anki_decks_stack[1].notes[1].question = <<TextLine(last_line.text)>>

\* the decks that exist: on the stack or emitted during the scan, the
\* returned list afterwards
DecksNow == IF pc = "scan" THEN AllDecks ELSE anki_decks

\* entry k of note_read is the note at position n of deck i
IsNoteRead(k, i, n) ==
  /\ note_read[k].top_after = DecksNow[i].md_document_order
  /\ note_read[k].index = n
  /\ Head(DecksNow[i].notes[n].question) = TextLine(note_read[k].line.text)
  /\ note_read[k].line.id # NoId =>
       DecksNow[i].notes[n].guid = note_read[k].line.id

\* C14 as stated: every note of the returned list is contained in the deck
\* that was on top of the deck stack when the note's heading line was read,
\* i.e. before the line was handled.
C14_AsStated ==
  Returned =>
    \A i \in 1..Len(anki_decks) :
      \A n \in 1..Len(anki_decks[i].notes) :
        \E k \in 1..Len(note_read) :
          /\ IsNoteRead(k, i, n)
          /\ note_read[k].top_before = anki_decks[i].md_document_order

\* C14 (amended): every note, during the scan and in the returned list, is
\* contained in the deck that was on top of the deck stack once its heading
\* line had been handled (the former top when no deck had to be closed,
\* otherwise the copy re-opened for the note), at the position it was given
\* then; and no other note exists.
C14_NoteOwnership ==
  (pc = "scan" \/ Returned) =>
    /\ NoteCount(DecksNow) = Len(note_read)
    /\ \A i \in 1..Len(DecksNow) :
         \A n \in 1..Len(DecksNow[i].notes) :
           \E k \in 1..Len(note_read) : IsNoteRead(k, i, n)
    /\ \A k \in 1..Len(note_read) :
         note_read[k].top_before # note_read[k].top_after =>
           /\ note_read[k].index = 1
           /\ note_read[k].top_after > note_read[k].top_before

\* returned: a note read while a subdeck was on top that went to the
\* re-opened parent, and a note that went to the subdeck on top
C14_Witness ==
  /\ Returned
  /\ \E k \in 1..Len(note_read) :
       note_read[k].top_before # note_read[k].top_after
  /\ \E k \in 1..Len(note_read) :
       note_read[k].top_before = note_read[k].top_after
  /\ Len(anki_decks) = 3

\* the line of the call matches the regular expression of the matcher called
CallMatches ==
  IF call.op = "parse_possible_anki_deck_heading"
  THEN DeckHeadingMatches(call.line)
  ELSE NoteHeadingMatches(call.line)

CalledTwice == call.op # "none" /\ call.calls = 2

NoBlankEnds(buf) ==
  buf = <<>> \/ (~IsWhitespace(buf[1]) /\ ~IsWhitespace(buf[Len(buf)]))

\* final is text without the newlines at its front and at its end
TrimmedOf(final, text) ==
  /\ NoBlankEnds(final)
  /\ \E a, b \in 0..Len(text) :
       /\ a + b <= Len(text)
       /\ final = SubSeq(text, a + 1, Len(text) - b)
       /\ \A i \in 1..a : IsWhitespace(text[i])
       /\ \A i \in (Len(text) - b + 1)..Len(text) : IsWhitespace(text[i])

\* the last two non-blank lines read were both appended to the same
\* description or to the same answer, and nothing was read since but blank
\* lines
TwoContentLinesRead ==
  /\ pc = "scan"
  /\ lines_read > 0
  /\ blank_run.prev \in {"description", "answer"}
  /\ blank_run.prev2 = blank_run.prev

\* the buffer the last non-blank line read was appended to
CurrentBuffer ==
  IF blank_run.prev = "description"
  THEN Last(anki_decks_stack).description
  ELSE Last(Last(anki_decks_stack).notes).answer

\* buf ends with two content lines and k blank lines between them
EndsWithBlankLines(buf, k) ==
  LET n == Len(buf)
  IN  /\ n >= k + 4
      /\ IsWhitespace(buf[n])
      /\ ~IsWhitespace(buf[n - 1])
      /\ \A j \in 1..(k + 1) : IsWhitespace(buf[n - 1 - j])
      /\ ~IsWhitespace(buf[n - k - 3])

\* the decks as they were accumulated when the input ended
AccumulatedDecks == before.anki_decks \o before.anki_decks_stack

\* every returned text is the accumulated text without the blank lines at
\* its front and at its end
ReturnedTextsTrimmed ==
  \A i \in 1..Len(anki_decks) :
    \E j \in 1..Len(AccumulatedDecks) :
      LET final == anki_decks[i]
          acc == AccumulatedDecks[j]
      IN  /\ acc.md_document_order = final.md_document_order
          /\ TrimmedOf(final.description, acc.description)
          /\ Len(final.notes) = Len(acc.notes)
          /\ \A n \in 1..Len(final.notes) :
               /\ n <= Len(acc.notes)
               /\ TrimmedOf(final.notes[n].question, acc.notes[n].question)
               /\ TrimmedOf(final.notes[n].answer, acc.notes[n].answer)

\* C16 as stated: the returned descriptions, questions and answers have no
\* leading and no trailing blank lines, and a run of one or more blank
\* input lines between two content lines of the same text block appears as
\* a single blank line.
C16_AsStated ==
  /\ Returned => ReturnedTextsTrimmed
  /\ (TwoContentLinesRead /\ blank_run.prev_blanks >= 1) =>
       EndsWithBlankLines(CurrentBuffer, 1)

\* C16 (amended): the returned descriptions, questions and answers are the
\* accumulated texts without their leading and trailing blank lines, and a
\* run of k blank input lines between two content lines appended to the
\* same description or answer stands in the text as k blank lines.
C16_WhitespaceKept ==
  /\ Returned => ReturnedTextsTrimmed
  /\ TwoContentLinesRead =>
       EndsWithBlankLines(CurrentBuffer, blank_run.prev_blanks)

\* returned: a description of two lines with two blank lines between them,
\* without the newline that ended its last line
C16_Witness ==
  /\ Returned
  /\ lines_read = 5
  /\ Len(anki_decks) = 1
  /\ Len(anki_decks[1].description) = 5
  /\ before.empty_lines = 0
  /\ \E j \in 1..Len(AccumulatedDecks) :
       Len(AccumulatedDecks[j].description) = 6

\* the note being read: the last note of the deck on top of the stack
CurrentNote(stack) == Last(Last(stack).notes)

\* the same stack but for the question and the answer of the current note
SameButCurrentNoteText(stack_a, stack_b) ==
  /\ Len(stack_a) = Len(stack_b)
  /\ Front(stack_a) = Front(stack_b)
  /\ Len(Last(stack_a).notes) = Len(Last(stack_b).notes)
  /\ Front(Last(stack_a).notes) = Front(Last(stack_b).notes)
  /\ [Last(stack_a) EXCEPT !.notes = <<>>]
       = [Last(stack_b) EXCEPT !.notes = <<>>]
  /\ CurrentNote(stack_a).guid = CurrentNote(stack_b).guid
  /\ CurrentNote(stack_a).tags = CurrentNote(stack_b).tags

\* the document of tests_md_parser.py 230-232
SeparatorDocument ==
  << HeadingLine(1, FALSE, "Heading", 12349), BlankLine,
     HeadingLine(2, FALSE, "Question 1", 101), BlankLine,
     TextLine("Answer 1"), BlankLine,
     HeadingLine(2, FALSE, "Question 2", 102), BlankLine,
     TextLine("More question"), BlankLine,
     SepLine, BlankLine,
     TextLine("Answer 2") >>

SeparatorResult ==
  LET r == parse_md_content_to_anki_deck_list(SeparatorDocument, 1, 9001)
      d == r.anki_decks
  IN  /\ r.raised = NoError
      /\ Len(d) = 1
      /\ Len(d[1].notes) = 2
      /\ d[1].notes[1].question = <<TextLine("Question 1")>>
      /\ d[1].notes[1].answer = <<TextLine("Answer 1")>>
      /\ d[1].notes[2].question =
           <<TextLine("Question 2"), NL, NL, TextLine("More question")>>
      /\ d[1].notes[2].answer = <<TextLine("Answer 2")>>

\* C17: in state ANKI_NOTE_QUESTION the separator line moves the text read
\* so far into the question (heading text, one blank line, that text without
\* the blank lines in front of it), empties the answer and switches to
\* ANKI_NOTE_ANSWER, changing nothing else; finalized, the question is the
\* heading text plus the text before the separator and the answer is only
\* the text behind it.
C17_SeparatorMovesAnswer ==
  /\ lines_read = 0 => SeparatorResult
  /\ ( /\ LineWasRead
       /\ before.parse_state = ANKI_NOTE_QUESTION
       /\ last_line.kind = "sep" )
     =>
       LET old == CurrentNote(before.anki_decks_stack)
           new == CurrentNote(anki_decks_stack)
       IN  /\ raised = NoError
           /\ parse_state = ANKI_NOTE_ANSWER
           /\ new.answer = <<>>
           /\ Len(old.question) = 1
           /\ \E a \in 0..Len(old.answer) :
                /\ \A i \in 1..a : IsWhitespace(old.answer[i])
                /\ a < Len(old.answer) => ~IsWhitespace(old.answer[a + 1])
                /\ new.question =
                     (old.question \o <<NL, NL>>)
                       \o SubSeq(old.answer, a + 1, Len(old.answer))
           /\ SameButCurrentNoteText(anki_decks_stack, before.anki_decks_stack)
           /\ anki_decks = before.anki_decks
           /\ empty_lines = before.empty_lines
           /\ anki_deck_document_order_index_counter =
                before.anki_deck_document_order_index_counter

\* the separator was read behind a blank line and a line of text
C17_Witness ==
  /\ LineWasRead
  /\ before.parse_state = ANKI_NOTE_QUESTION
  /\ last_line.kind = "sep"
  /\ Len(CurrentNote(before.anki_decks_stack).answer) = 3
  /\ IsWhitespace(CurrentNote(before.anki_decks_stack).answer[1])
  /\ Len(CurrentNote(anki_decks_stack).question) = 5

\* C18: a separator line is consumed as a separator only in state
\* ANKI_NOTE_QUESTION, where the question of the note is still its heading
\* text: at most once per note.  Read in state ANKI_NOTE_ANSWER, the
\* separator line is appended to the answer as content (behind the newlines
\* of the blank lines counted), the question stays, the state stays
\* ANKI_NOTE_ANSWER and nothing is raised.
C18_SecondSeparatorIsContent ==
  /\ (LineWasRead /\ event = "separator") =>
       /\ before.parse_state = ANKI_NOTE_QUESTION
       /\ Len(CurrentNote(before.anki_decks_stack).question) = 1
  /\ ( /\ LineWasRead
       /\ before.parse_state = ANKI_NOTE_ANSWER
       /\ last_line.kind = "sep" )
     =>
       LET old == CurrentNote(before.anki_decks_stack)
           new == CurrentNote(anki_decks_stack)
       IN  /\ raised = NoError
           /\ event = "answer"
           /\ parse_state = ANKI_NOTE_ANSWER
           /\ new.question = old.question
           /\ Len(new.answer) = Len(old.answer) + before.empty_lines + 2
           /\ SubSeq(new.answer, 1, Len(old.answer)) = old.answer
           /\ \A i \in (Len(old.answer) + 1)..(Len(new.answer) - 2) :
                IsWhitespace(new.answer[i])
           /\ new.answer[Len(new.answer) - 1] = SepLine
           /\ IsWhitespace(Last(new.answer))
           /\ SameButCurrentNoteText(anki_decks_stack, before.anki_decks_stack)
           /\ anki_decks = before.anki_decks

\* a third separator line of the same note was read
C18_Witness ==
  /\ LineWasRead
  /\ before.parse_state = ANKI_NOTE_ANSWER
  /\ last_line.kind = "sep"
  /\ Len(CurrentNote(before.anki_decks_stack).answer) = 2
  /\ CurrentNote(before.anki_decks_stack).answer[1] = SepLine
  /\ Len(CurrentNote(anki_decks_stack).answer) = 4

\* C19: a blank line, read in any parse state, raises nothing and changes
\* nothing but the blank-line counter, which grows by one: parse state, deck
\* stack, emitted list and document-order counter (and with the decks every
\* description, question and answer) stay as they were.
C19_BlankLineFrame ==
  (LineWasRead /\ last_line.kind = "blank") =>
    /\ raised = NoError
    /\ pc = "scan"
    /\ empty_lines = before.empty_lines + 1
    /\ parse_state = before.parse_state
    /\ anki_decks_stack = before.anki_decks_stack
    /\ anki_decks = before.anki_decks
    /\ anki_deck_document_order_index_counter =
         before.anki_deck_document_order_index_counter
    /\ opened = before.opened

\* a second blank line in a row was read behind the separator of a note
C19_Witness ==
  /\ LineWasRead
  /\ last_line.kind = "blank"
  /\ parse_state = ANKI_NOTE_ANSWER
  /\ empty_lines = 2
  /\ blank_run.blanks = 2

\* the description or answer the line just read was appended to, as it was
\* before
BufferBefore ==
  IF event = "description"
  THEN Last(before.anki_decks_stack).description
  ELSE CurrentNote(before.anki_decks_stack).answer

BufferAfter ==
  IF event = "description"
  THEN Last(anki_decks_stack).description
  ELSE CurrentNote(anki_decks_stack).answer

\* C20: a content line appended to a deck description or a note answer is
\* put behind as many newline characters as blank lines were read since a
\* line was last appended (since the counter was last reset), and the
\* counter is reset to 0; k blank input lines between two consecutive
\* content lines of the same buffer stand as k blank lines between them in
\* the accumulated text.
C20_BlankLinesToNewlines ==
  /\ (pc = "scan" /\ lines_read > 0) => empty_lines = blank_run.counted
  /\ (LineWasRead /\ event \in {"description", "answer"}) =>
       LET k == blank_run.prev_counted
           n == Len(BufferBefore)
       IN  /\ raised = NoError
           /\ empty_lines = 0
           /\ Len(BufferAfter) = n + k + 2
           /\ SubSeq(BufferAfter, 1, n) = BufferBefore
           /\ \A i \in (n + 1)..(n + k) : IsWhitespace(BufferAfter[i])
           /\ BufferAfter[n + k + 1] = last_line
           /\ IsWhitespace(BufferAfter[n + k + 2])
  /\ (TwoContentLinesRead /\ blank_run.blanks = 0) =>
       /\ blank_run.prev_blanks = blank_run.prev_counted
       /\ EndsWithBlankLines(CurrentBuffer, blank_run.prev_blanks)

\* two blank lines stand between two lines of a description
C20_Witness ==
  /\ LineWasRead
  /\ event = "description"
  /\ blank_run.prev2 = "description"
  /\ blank_run.prev_blanks = 2
  /\ Len(BufferAfter) = 6

\* all descriptions, questions and answers of a list of decks
TextsOf(decks) ==
  [i \in 1..Len(decks) |->
     [description |-> decks[i].description,
      notes |-> [n \in 1..Len(decks[i].notes) |->
                   <<decks[i].notes[n].question, decks[i].notes[n].answer>>]]]

\* C21: in a body state a heading line with the subdeck prefix and two or
\* more markers is handled as a subdeck transition (accepted or raising)
\* and creates no note; a heading line with two or more markers and no
\* subdeck prefix is handled as a note heading (accepted or raising
\* AnkiNoteUnexpectedDepth) and is never appended to a description or an
\* answer.
C21_HeadingPriority ==
  ( /\ LineWasRead
    /\ before.parse_state \in BodyStates
    /\ last_line.kind = "heading"
    /\ last_line.depth >= 2 )
  =>
    LET before_decks == before.anki_decks \o before.anki_decks_stack
    IN  IF last_line.sub
        THEN /\ event \in {"subdeck", "raise"}
             /\ raised \in {NoError, AnkiSubdeckUnexpectedDepth, IndexError}
             /\ NoteCount(AllDecks) = NoteCount(before_decks)
             /\ raised = NoError =>
                  /\ parse_state = INSIDE_ANKI_DECK
                  /\ Len(opened) = Len(before.opened) + 1
                  /\ Last(opened).how = "subdeck"
        ELSE /\ event \in {"note", "note+clone", "raise"}
             /\ raised \in {NoError, AnkiNoteUnexpectedDepth}
             /\ raised = NoError =>
                  /\ NoteCount(AllDecks) = NoteCount(before_decks) + 1
                  /\ parse_state = ANKI_NOTE_QUESTION
                  /\ CurrentNote(anki_decks_stack).question =
                       <<TextLine(last_line.text)>>
                  /\ CurrentNote(anki_decks_stack).answer = <<>>
             /\ raised # NoError => TextsOf(AllDecks) = TextsOf(before_decks)
             /\ \A i \in 1..Len(AllDecks) :
                  /\ \A j \in 1..Len(AllDecks[i].description) :
                       AllDecks[i].description[j].depth < 2
                  /\ \A n \in 1..Len(AllDecks[i].notes) :
                       \A j \in 1..Len(AllDecks[i].notes[n].answer) :
                         AllDecks[i].notes[n].answer[j].depth < 2

\* a subdeck heading with two markers was accepted while a note was read
C21_Witness ==
  /\ LineWasRead
  /\ before.parse_state = ANKI_NOTE_ANSWER
  /\ last_line.kind = "heading"
  /\ last_line.depth = 2
  /\ last_line.sub
  /\ event = "subdeck"
  /\ NoteCount(AllDecks) = 1

\* C22: in the body states the name of every deck of the stack above the
\* bottom is the name of the deck directly below it + '::' + its own
\* heading text (without the subdeck prefix); a subdeck heading that
\* was accepted pushed a deck named after the deck now below it, also when
\* decks were popped for it.
C22_StackNames ==
  /\ (pc = "scan" /\ parse_state \in BodyStates) =>
       /\ Len(anki_decks_stack) >= 1
       /\ \A i \in 2..Len(anki_decks_stack) :
            /\ anki_decks_stack[i].name # <<>>
            /\ Front(anki_decks_stack[i].name) = anki_decks_stack[i - 1].name
  /\ (SubdeckHeadingWasRead /\ raised = NoError) =>
       LET n == Len(anki_decks_stack)
       IN  /\ n >= 2
           /\ anki_decks_stack[n].name =
                Append(anki_decks_stack[n - 1].name, last_line.text)
           /\ anki_decks_stack[n - 1] =
                before.anki_decks_stack[n - 1]

\* stack [Heading, Heading::Heading], then '## Subdeck: Heading 2'
C22_Witness ==
  /\ SubdeckHeadingWasRead
  /\ raised = NoError
  /\ Len(before.anki_decks_stack) = 2
  /\ Last(before.anki_decks_stack).name = <<"Heading", "Heading">>
  /\ Len(anki_decks_stack) = 2
  /\ Last(anki_decks_stack).name = <<"Heading", "Heading 2">>

\* C23: the parse state starts as LOOKING_FOR_ANKI_DECK_HEADING and is
\* never that again once it was left; INSIDE_ANKI_DECK is entered only by
\* an accepted root or subdeck heading, ANKI_NOTE_QUESTION only by an
\* accepted note heading, ANKI_NOTE_ANSWER only from ANKI_NOTE_QUESTION by
\* a separator line; a line of answer text keeps ANKI_NOTE_QUESTION;
\* LOOKING_FOR_ANKI_SUBDECK_DESCRIPTION is never the parse state.
C23_StateEdges ==
  /\ parse_state # LOOKING_FOR_ANKI_SUBDECK_DESCRIPTION
  /\ parse_state \in {LOOKING_FOR_ANKI_DECK_HEADING} \cup BodyStates
  /\ lines_read = 0 => parse_state = LOOKING_FOR_ANKI_DECK_HEADING
  /\ parse_state = LOOKING_FOR_ANKI_DECK_HEADING =>
       before.parse_state = LOOKING_FOR_ANKI_DECK_HEADING /\ opened = <<>>
  /\ opened # <<>> => parse_state \in BodyStates
  /\ (parse_state = INSIDE_ANKI_DECK /\ before.parse_state # INSIDE_ANKI_DECK)
       => event \in {"root", "subdeck"}
  /\ event = "root" =>
       /\ before.parse_state = LOOKING_FOR_ANKI_DECK_HEADING
       /\ parse_state = INSIDE_ANKI_DECK
  /\ event = "subdeck" =>
       before.parse_state \in BodyStates /\ parse_state = INSIDE_ANKI_DECK
  /\ (parse_state = ANKI_NOTE_QUESTION
        /\ before.parse_state # ANKI_NOTE_QUESTION)
       => event \in {"note", "note+clone"}
  /\ event \in {"note", "note+clone"} =>
       before.parse_state \in BodyStates /\ parse_state = ANKI_NOTE_QUESTION
  /\ (parse_state = ANKI_NOTE_ANSWER /\ before.parse_state # ANKI_NOTE_ANSWER)
       => /\ before.parse_state = ANKI_NOTE_QUESTION
          /\ event = "separator"
          /\ last_line.kind = "sep"
  /\ event \in {"answer", "description", "blank", "ignore", "raise", "return"}
       => parse_state = before.parse_state

\* a note heading was accepted behind the answer of the note before it
C23_Witness ==
  /\ LineWasRead
  /\ before.parse_state = ANKI_NOTE_ANSWER
  /\ parse_state = ANKI_NOTE_QUESTION
  /\ event = "note"

\* C24: while the root deck is looked for, a non-blank line that is not a
\* deck heading with exactly initial_heading_depth markers (text, a
\* separator, a heading of another depth with or without the subdeck
\* prefix) raises nothing and leaves parse state, stack, emitted list and
\* document-order counter as they were (the blank-line counter too).
C24_IgnoredBeforeRoot ==
  ( /\ LineWasRead
    /\ before.parse_state = LOOKING_FOR_ANKI_DECK_HEADING
    /\ last_line.kind # "blank"
    /\ ~(last_line.kind = "heading"
           /\ last_line.depth = initial_heading_depth) )
  =>
    /\ raised = NoError
    /\ pc = "scan"
    /\ event = "ignore"
    /\ parse_state = LOOKING_FOR_ANKI_DECK_HEADING
    /\ anki_decks_stack = <<>>
    /\ anki_decks = <<>>
    /\ anki_deck_document_order_index_counter = 0
    /\ empty_lines = before.empty_lines
    /\ opened = <<>>

\* a subdeck heading of another depth was ignored
C24_Witness ==
  /\ LineWasRead
  /\ before.parse_state = LOOKING_FOR_ANKI_DECK_HEADING
  /\ last_line.kind = "heading"
  /\ last_line.sub
  /\ last_line.depth # initial_heading_depth
  /\ event = "ignore"
  /\ lines_read >= 2

\* the number of decks of before.anki_decks_stack the last line left on
\* the stack
LeftOnStack ==
  IF event \in {"subdeck", "note+clone"}
  THEN Len(anki_decks_stack) - 1
  ELSE Len(before.anki_decks_stack)

\* C25: a deck leaves the stack only into the emitted list, at the moment
\* it is popped (the deck popped first is appended first), so that stack
\* and emitted list together hold every deck created so far exactly once;
\* on a successful return the list holds the emitted decks and the decks
\* that were still on the stack, each deck created (root, accepted
\* subdecks, clones) exactly once, and its length is the final value of
\* the document-order counter.
C25_EveryDeckReturnedOnce ==
  /\ (LineWasRead /\ raised = NoError) =>
       LET b == before.anki_decks_stack
       IN  /\ LeftOnStack \in 0..Len(b)
           /\ anki_decks =
                before.anki_decks \o Reverse(SubSeq(b, LeftOnStack + 1, Len(b)))
           /\ Len(anki_decks) + Len(anki_decks_stack)
                = anki_deck_document_order_index_counter
           /\ anki_deck_document_order_index_counter = Len(opened)
  /\ Returned =>
       /\ Len(anki_decks) = anki_deck_document_order_index_counter
       /\ Len(anki_decks) = Len(opened)
       /\ Len(anki_decks) = Len(AccumulatedDecks)
       /\ \A j \in 1..Len(AccumulatedDecks) :
            Cardinality(
              { i \in 1..Len(anki_decks) :
                  /\ anki_decks[i].md_document_order =
                       AccumulatedDecks[j].md_document_order
                  /\ anki_decks[i].name = AccumulatedDecks[j].name
                  /\ anki_decks[i].guid = AccumulatedDecks[j].guid }) = 1
       /\ \A k \in 1..Len(opened) :
            /\ anki_decks[k].md_document_order = k - 1
            /\ anki_decks[k].name = opened[k].name
            /\ anki_decks[k].guid = opened[k].guid

\* returned: two decks had been popped and two were still on the stack
C25_Witness ==
  /\ Returned
  /\ Len(before.anki_decks) = 2
  /\ Len(before.anki_decks_stack) = 2
  /\ Len(anki_decks) = 4
  /\ \E k \in 1..Len(opened) : opened[k].how = "clone"

\* C26: during the scan a line leaves every deck of the emitted list as it
\* was (name, id, description, tags, notes with question and answer), and
\* a deck it pops is emitted as it stood on the stack; a note heading that
\* re-opens a popped deck gives its note to the copy only: the original
\* keeps the notes it had.
C26_EmittedDecksFrozen ==
  LineWasRead =>
    LET n == Len(before.anki_decks)
        b == before.anki_decks_stack
    IN  /\ Len(anki_decks) >= n
        /\ SubSeq(anki_decks, 1, n) = before.anki_decks
        /\ \A i \in (n + 1)..Len(anki_decks) :
             \E j \in 1..Len(b) : anki_decks[i] = b[j]
        /\ event = "note+clone" =>
             LET original == Last(anki_decks)
                 copy == Last(anki_decks_stack)
             IN  /\ original = b[Len(anki_decks_stack)]
                 /\ copy.name = original.name
                 /\ copy.md_document_order # original.md_document_order
                 /\ Len(copy.notes) = 1
                 /\ NoteCount(AllDecks) =
                      NoteCount(before.anki_decks \o b) + 1

\* a deck with a note was popped by a subdeck heading, and lines were read
\* after that
C26_Witness ==
  /\ LineWasRead
  /\ Len(before.anki_decks) >= 1
  /\ Len(before.anki_decks[1].notes) = 1
  /\ event \in {"note", "description"}
  /\ Len(anki_decks) = Len(before.anki_decks)

Terminated == pc \in {"done", "raised"}

\* the lines that are still to be read, plus one for the code behind the loop
LinesLeft == IF pc = "scan" THEN MaxLines - lines_read + 1 ELSE 0

\* C27: the call terminates, returning a deck list or raising: every step
\* takes one line from the lines that are left or ends the call, so the
\* number of steps is bounded by the number of lines, and the pop loops of a
\* line move at most len(stack) decks to the list.
C27_Terminates ==
  /\ [](/\ LinesLeft \in 0..(MaxLines + 1)
        /\ LineWasRead =>
             /\ Len(anki_decks) >= Len(before.anki_decks)
             /\ Len(anki_decks) - Len(before.anki_decks)
                  <= Len(before.anki_decks_stack))
  /\ [][/\ LinesLeft' < LinesLeft
        /\ ~Terminated
        /\ Terminated' \/ lines_read' = lines_read + 1]_vars

\* the call ended in the error of a pop loop that emptied the stack
C27_Witness ==
  /\ pc = "raised"
  /\ raised = IndexError
  /\ Len(before.anki_decks_stack) = 3
  /\ Len(anki_decks) = Len(before.anki_decks) + 3

\* the notes of a deck list in list order, each with the document order of
\* its deck and its position in the deck
RECURSIVE NotesInListOrder(_)
NotesInListOrder(decks) ==
  IF decks = <<>> THEN <<>>
  ELSE [n \in 1..Len(Head(decks).notes) |->
          [order |-> Head(decks).md_document_order, index |-> n,
           note |-> Head(decks).notes[n]]]
       \o NotesInListOrder(Tail(decks))

\* C28: in the body states the document order strictly increases from the
\* bottom to the top of the deck stack and the top of the stack has the
\* largest document order assigned so far; the notes of the returned list,
\* taken deck by deck in list order, are the notes in the order in which
\* their heading lines were read.
C28_DocumentOrder ==
  /\ (pc = "scan" /\ parse_state \in BodyStates) =>
       /\ anki_decks_stack # <<>>
       /\ \A i \in 1..(Len(anki_decks_stack) - 1) :
            anki_decks_stack[i].md_document_order
              < anki_decks_stack[i + 1].md_document_order
       /\ Last(anki_decks_stack).md_document_order
            = anki_deck_document_order_index_counter - 1
       /\ \A i \in 1..Len(anki_decks) :
            anki_decks[i].md_document_order
              < Last(anki_decks_stack).md_document_order
  /\ Returned =>
       LET notes == NotesInListOrder(anki_decks)
       IN  /\ Len(notes) = Len(note_read)
           /\ \A k \in 1..Len(notes) :
                /\ notes[k].order = note_read[k].top_after
                /\ notes[k].index = note_read[k].index
                /\ Head(notes[k].note.question)
                     = TextLine(note_read[k].line.text)

\* returned: a note of the root deck, a note of a subdeck and a note of the
\* re-opened root deck, in three decks
C28_Witness ==
  /\ Returned
  /\ Len(anki_decks) = 3
  /\ Len(note_read) = 3
  /\ note_read[1].top_after = 0
  /\ note_read[2].top_after = 1
  /\ note_read[3].top_after = 2
  /\ note_read[3].top_before = 1

\* the positions (deck, note) of the returned list that hold the note of
\* entry k of note_read
PlacesOfNoteRead(k) ==
  { p \in (1..Len(anki_decks)) \X (1..MaxLines) :
      /\ p[2] <= Len(anki_decks[p[1]].notes)
      /\ IsNoteRead(k, p[1], p[2]) }

\* C29: on a successful return every accepted note heading has exactly one
\* note in exactly one deck of the returned list and the list holds no
\* other note; when the deck a note follows is closed and re-opened, the
\* closed deck goes to the list with the notes it had and the copy holds
\* the new note only.
C29_NoNoteLostOrDuplicated ==
  /\ Returned =>
       /\ \A k \in 1..Len(note_read) : Cardinality(PlacesOfNoteRead(k)) = 1
       /\ \A k1, k2 \in 1..Len(note_read) :
            k1 # k2 => PlacesOfNoteRead(k1) # PlacesOfNoteRead(k2)
       /\ NoteCount(anki_decks) = Len(note_read)
  /\ (LineWasRead /\ event = "note+clone") =>
       LET original == before.anki_decks_stack[Len(anki_decks_stack)]
       IN  /\ Last(anki_decks) = original
           /\ Len(Last(anki_decks_stack).notes) = 1
           /\ Len(note_read) = NoteCount(before.anki_decks)
                                 + NoteCount(before.anki_decks_stack) + 1

\* returned: a deck with two notes that was closed and re-opened behind a
\* subdeck, and its copy with the one note that followed
C29_Witness ==
  /\ Returned
  /\ Len(anki_decks) = 3
  /\ anki_decks[1].name = anki_decks[3].name
  /\ Len(anki_decks[1].notes) = 2
  /\ Len(anki_decks[3].notes) = 1
  /\ Len(note_read) = 3

\* the last line read was a heading with initial_heading_depth markers and
\* without the subdeck prefix, read after the root deck had been accepted
RootDepthHeadingWasRead ==
  /\ LineWasRead
  /\ before.parse_state \in BodyStates
  /\ last_line.kind = "heading"
  /\ last_line.depth = initial_heading_depth
  /\ ~last_line.sub

RootDecksOpened == { i \in 1..Len(opened) : opened[i].how = "root" }

\* one deck was opened as the root and every returned deck starts with its
\* name
OneRootDeck ==
  /\ parse_state \in BodyStates => Cardinality(RootDecksOpened) = 1
  /\ Returned =>
       \A i \in 1..Len(anki_decks) :
         SubSeq(anki_decks[i].name, 1, Len(opened[1].name)) = opened[1].name

C30_WitnessRaise ==
  /\ RootDepthHeadingWasRead
  /\ initial_heading_depth = 2
  /\ raised = AnkiNoteUnexpectedDepth

====
